---- MODULE Spec2Model ----
(***************************************************************************)
(* Reconciliation of form-entered and PDF-extracted clinical values in the *)
(* Streamlit session of src/app_enhanced.py: process_pdf (merge),          *)
(* render_conflict_chip (resolve), render_patient_form (form input) and    *)
(* the clinical-rule evaluation that closes every script run of main().    *)
(*                                                                         *)
(* Numbers are held in tenths (7.0 is 70, 9.4 is 94), so that the values   *)
(* of the HbA1c scenario stay integers.  A Python value is a one-field     *)
(* record naming its type: [num |-> 94], [str |-> "A"], [bool |-> FALSE],  *)
(* and None is [none |-> TRUE].                                            *)
(***************************************************************************)
EXTENDS Integers, FiniteSets, Sequences, TLC

VARIABLES
    patient_data,   \* st.session_state.patient_data: field name -> value
    lab_data,       \* st.session_state.lab_data: test name -> {value, unit}
    conflicts,      \* st.session_state.conflicts: test name -> conflict dict
    pdf_text,       \* st.session_state.pdf_text
    radio,          \* st.session_state["resolve_<test_name>"], the radio's value
    flags,          \* the alerts of the script run's rule evaluation
    unresolved,     \* history: conflicts no chip selection has been made on
    edited,         \* history: conflicts whose form widget was changed since
    op,             \* history: the operation the last script run performed
    rules,          \* the catalog load_rules returned (src/rules/__init__.py)
    status          \* the last call into src/rules and its outcome

\* the catalog and the classifier's last call
cvars == <<rules, status>>

\* the Streamlit session
svars ==
    <<patient_data, lab_data, conflicts, pdf_text, radio, flags, unresolved,
      edited, op>>

vars == <<svars, cvars>>

-----------------------------------------------------------------------------
(* Python values *)

Num(n) == [num |-> n]
Str(s) == [str |-> s]
None == [none |-> TRUE]

IsNum(v) == "num" \in DOMAIN v
IsStr(v) == "str" \in DOMAIN v
IsBool(v) == "bool" \in DOMAIN v

TruthyMutAlways(v) == TRUE

\* bool(v): None, 0, 0.0, False and '' are falsy
Truthy(v) ==
    IF IsNum(v) THEN v.num # 0
    ELSE IF IsStr(v) THEN v.str # ""
    ELSE IF IsBool(v) THEN v.bool
    ELSE FALSE

\* the number a num or a bool compares as (True == 1, False == 0), in tenths
AsNumber(v) == IF IsNum(v) THEN v.num ELSE IF v.bool THEN 10 ELSE 0

\* a != b of Python: numbers and bools compare by value, exactly (no
\* tolerance); a str equals only the same str; None equals only None
PyNeMutAlways(a, b) == TRUE
PyNe(a, b) ==
    IF (IsNum(a) \/ IsBool(a)) /\ (IsNum(b) \/ IsBool(b))
        THEN AsNumber(a) # AsNumber(b)
    ELSE a # b

\* d.get(k): the value, or None when the key is absent
Get(d, k) == IF k \in DOMAIN d THEN d[k] ELSE None

\* d[k] = v on a dict
Put(d, k, v) == [x \in DOMAIN d \cup {k} |-> IF x = k THEN v ELSE d[x]]

EmptyDict == [k \in {} |-> None]

-----------------------------------------------------------------------------
(* The form *)

\* the widgets of render_patient_form the model follows
WidgetFields == {"first_name", "last_name", "hba1c", "alcohol_units"}

\* the value a widget shows when patient_data has none for it
WidgetDefault(f) ==
    CASE f = "first_name"    -> Str("")
      [] f = "last_name"     -> Str("")
      [] f = "hba1c"         -> Num(70)
      [] f = "alcohol_units" -> Num(0)

\* values the user can set a widget to, within the widget's own range
WidgetValues(f) ==
    CASE f = "first_name"    -> {Str(""), Str("A")}
      [] f = "last_name"     -> {Str(""), Str("A")}
      [] f = "hba1c"         -> {Num(70), Num(94)}
      [] f = "alcohol_units" -> {Num(0), Num(70)}

-----------------------------------------------------------------------------
(* The extracted document *)

\* most tests one uploaded report yields
MaxTests == 2

TestNames == {"hba1c", "alcohol_units", "egfr"}

\* one parsed result: 'value' and 'unit', either of which may be absent
LabResults ==
    {[value |-> Num(94), unit |-> "%"], [value |-> Num(70)], [unit |-> "%"]}

\* the mappings parse_lab_results can return
Documents ==
    UNION {[names -> LabResults] :
             names \in {s \in SUBSET TestNames : Cardinality(s) <= MaxTests}}

-----------------------------------------------------------------------------
(* The rule engine (src/models/rules.py is not among the sources) *)

Rules == <<[id |-> "hba1c_poor_control", field |-> "hba1c", above |-> 90,
            severity |-> "HIGH"]>>

\* a missing or non-numeric field: the rule does not apply
RuleFires(r, snapshot) ==
    /\ r.field \in DOMAIN snapshot
    /\ IsNum(snapshot[r.field])
    /\ snapshot[r.field].num > r.above

Alert(r) == [rule_id |-> r.id, severity |-> r.severity]

RECURSIVE EvaluateFrom(_, _)
EvaluateFrom(i, snapshot) ==
    IF i > Len(Rules) THEN <<>>
    ELSE (IF RuleFires(Rules[i], snapshot) THEN <<Alert(Rules[i])>> ELSE <<>>)
            \o EvaluateFrom(i + 1, snapshot)

\* RuleEngine.evaluate: one alert per rule that fires, in declaration order
evaluate(snapshot) == EvaluateFrom(1, snapshot)

\* mutant: one name is enough for the rules to run
main_flagsMutEither(data) ==
    IF Truthy(Get(data, "first_name")) \/ Truthy(Get(data, "last_name"))
        THEN evaluate(data)
    ELSE <<>>

\* main(): the rules run on patient_data when both names are filled in
main_flags(data) ==
    IF Truthy(Get(data, "first_name")) /\ Truthy(Get(data, "last_name"))
        THEN evaluate(data)
    ELSE <<>>

-----------------------------------------------------------------------------
(* process_pdf *)

\* the loop raises KeyError on an entry without 'value' whose form value is
\* truthy ('and' evaluates result['value'] only then)
CompareRaises(data, doc) ==
    \E test_name \in DOMAIN doc :
        /\ Truthy(Get(data, test_name))
        /\ "value" \notin DOMAIN doc[test_name]

IsConflict(data, doc, test_name) ==
    LET form_value == Get(data, test_name)
    IN  /\ Truthy(form_value)
        /\ PyNe(form_value, doc[test_name].value)

result_unit(result) == IF "unit" \in DOMAIN result THEN result.unit ELSE ""

\* mutant: the two values of a conflict are stored the wrong way round
DetectConflictsMutSwap(data, doc) ==
    [test_name \in {t \in DOMAIN doc : IsConflict(data, doc, t)} |->
        [form_value |-> doc[test_name].value,
         pdf_value  |-> Get(data, test_name),
         unit       |-> result_unit(doc[test_name])]]

DetectConflicts(data, doc) ==
    [test_name \in {t \in DOMAIN doc : IsConflict(data, doc, t)} |->
        [form_value |-> Get(data, test_name),
         pdf_value  |-> doc[test_name].value,
         unit       |-> result_unit(doc[test_name])]]

Resolutions == {"Keep form value", "Use PDF value"}

\* a radio first rendered shows its first option; one rendered in the run
\* before keeps its selection under its key
RadioAfter(new_conflicts) ==
    [t \in TestNames |->
        IF t \in DOMAIN new_conflicts /\ t \in DOMAIN conflicts
            THEN radio[t] ELSE "Keep form value"]

\* `before`: the selection of the run just before, when that run made one on
\* the same chip
Op(name, t, choice, before) ==
    [name |-> name, t |-> t, choice |-> choice, before |-> before]

Before(test_name) ==
    IF op.name = "resolve" /\ op.t = test_name THEN op.choice ELSE "-"

\* no catalog has been loaded; no classification has been asked for
NotLoaded == [not_loaded |-> TRUE]
NoCall == [metric |-> "-", value |-> None, rules |-> NotLoaded, result |-> "-"]

Init ==
    /\ patient_data = EmptyDict
    /\ lab_data = EmptyDict
    /\ conflicts = EmptyDict
    /\ pdf_text = None
    /\ radio = [t \in TestNames |-> "Keep form value"]
    /\ flags = <<>>
    /\ unresolved = {}
    /\ edited = {}
    /\ op = Op("start", "-", "-", "-")
    /\ rules = NotLoaded
    /\ status = NoCall

\* a script run in which the user set widget f to v (or left it at v)
render_patient_form(f, v) ==
    /\ patient_data' =
         [g \in DOMAIN patient_data \cup WidgetFields |->
            IF g = f THEN v
            ELSE IF g \in DOMAIN patient_data THEN patient_data[g]
            ELSE WidgetDefault(g)]
    /\ flags' = main_flags(patient_data')
    /\ edited' = edited \cup {t \in DOMAIN conflicts : patient_data'[t] # patient_data[t]}
    /\ op' = Op("form", "-", "-", "-")
    /\ UNCHANGED <<lab_data, conflicts, pdf_text, radio, unresolved, cvars>>

\* "Extract Lab Data" pressed; extract_text raises
process_pdf_extract_error ==
    /\ WidgetFields \subseteq DOMAIN patient_data
    /\ flags' = main_flags(patient_data)
    /\ op' = Op("process_pdf", "-", "extract_error", "-")
    /\ UNCHANGED <<patient_data, lab_data, conflicts, pdf_text, radio, unresolved,
                   edited, cvars>>

\* extract_text returns, parse_lab_results raises
process_pdf_parse_error ==
    /\ WidgetFields \subseteq DOMAIN patient_data
    /\ pdf_text' = Str("text")
    /\ flags' = main_flags(patient_data)
    /\ op' = Op("process_pdf", "-", "parse_error", "-")
    /\ UNCHANGED <<patient_data, lab_data, conflicts, radio, unresolved, edited,
                   cvars>>

\* mutant: lab_data is stored before the comparison loop runs
process_pdfMutEarly(doc) ==
    /\ WidgetFields \subseteq DOMAIN patient_data
    /\ pdf_text' = Str("text")
    /\ lab_data' = doc
    /\ IF CompareRaises(patient_data, doc)
         THEN /\ op' = Op("process_pdf", "-", "KeyError", "-")
              /\ UNCHANGED <<conflicts, radio, unresolved, edited>>
         ELSE /\ conflicts' = DetectConflicts(patient_data, doc)
              /\ radio' = RadioAfter(conflicts')
              /\ unresolved' = DOMAIN conflicts'
              /\ edited' = {}
              /\ op' = Op("process_pdf", "-", "ok", "-")
    /\ flags' = main_flags(patient_data)
    /\ UNCHANGED <<patient_data, cvars>>

\* parse_lab_results returns doc
process_pdf(doc) ==
    /\ WidgetFields \subseteq DOMAIN patient_data
    /\ pdf_text' = Str("text")
    /\ IF CompareRaises(patient_data, doc)
         THEN /\ op' = Op("process_pdf", "-", "KeyError", "-")
              /\ UNCHANGED <<lab_data, conflicts, radio, unresolved, edited>>
         ELSE /\ lab_data' = doc
              /\ conflicts' = DetectConflicts(patient_data, doc)
              /\ radio' = RadioAfter(conflicts')
              /\ unresolved' = DOMAIN conflicts'
              /\ edited' = {}
              /\ op' = Op("process_pdf", "-", "ok", "-")
    /\ flags' = main_flags(patient_data)
    /\ UNCHANGED <<patient_data, cvars>>

\* mutant: the PDF value is toggled against the form value
ResolveDataMutToggle(data, test_name, conflict, resolution) ==
    IF resolution = "Use PDF value"
        THEN IF Get(data, test_name) = conflict.pdf_value
                THEN Put(data, test_name, conflict.form_value)
             ELSE Put(data, test_name, conflict.pdf_value)
    ELSE data

\* mutant: the PDF value of every conflict is written, not only this chip's
ResolveDataMutAll(data, test_name, conflict, resolution) ==
    IF resolution = "Use PDF value"
        THEN [g \in DOMAIN data \cup DOMAIN conflicts |->
                IF g \in DOMAIN conflicts THEN conflicts[g].pdf_value ELSE data[g]]
    ELSE data

\* the snapshot render_conflict_chip leaves
ResolveData(data, test_name, conflict, resolution) ==
    IF resolution = "Use PDF value"
        THEN Put(data, test_name, conflict.pdf_value)
    ELSE data

\* a script run in which the chip's radio reads `resolution`
render_conflict_chip(test_name, resolution) ==
    /\ test_name \in DOMAIN conflicts
    /\ radio' = [radio EXCEPT ![test_name] = resolution]
    /\ patient_data' =
         ResolveData(patient_data, test_name, conflicts[test_name], resolution)
    /\ flags' = main_flags(patient_data')
    /\ unresolved' = unresolved \ {test_name}
    /\ op' = Op("resolve", test_name, resolution, Before(test_name))
    /\ UNCHANGED <<lab_data, conflicts, pdf_text, edited, cvars>>

Next ==
    \/ \E f \in WidgetFields : \E v \in WidgetValues(f) : render_patient_form(f, v)
    \/ process_pdf_extract_error
    \/ process_pdf_parse_error
    \/ \E doc \in Documents : process_pdf(doc)
    \/ \E t \in TestNames : \E r \in Resolutions : render_conflict_chip(t, r)

Spec == Init /\ [][Next]_vars

-----------------------------------------------------------------------------
(* The traffic-light classifier of src/rules/__init__.py *)

NaN == [nan |-> TRUE]
Inf == [inf |-> TRUE]

\* a float: a finite number, NaN or float('inf')
IsFloat(v) == IsNum(v) \/ v = NaN \/ v = Inf

\* a <= b of Python, as "True", "False" or the TypeError it raises when an
\* operand is no number (None, or a str against a number); every comparison
\* with NaN is false.  The model never compares two strs.
PyLeMutStrict(a, b) ==
    IF ~IsFloat(a) \/ ~IsFloat(b) THEN "TypeError"
    ELSE IF a = NaN \/ b = NaN THEN "False"
    ELSE IF b = Inf THEN (IF a = Inf THEN "False" ELSE "True")
    ELSE IF a = Inf THEN "False"
    ELSE IF a.num < b.num THEN "True" ELSE "False"

PyLe(a, b) ==
    IF ~IsFloat(a) \/ ~IsFloat(b) THEN "TypeError"
    ELSE IF a = NaN \/ b = NaN THEN "False"
    ELSE IF b = Inf THEN "True"
    ELSE IF a = Inf THEN "False"
    ELSE IF a.num <= b.num THEN "True" ELSE "False"

\* thresholds.get(key, float('inf'))
threshold_get(thresholds, key) ==
    IF key \in DOMAIN thresholds THEN thresholds[key] ELSE Inf

\* rules.get('traffic', {})
rules_traffic(catalog) ==
    IF "traffic" \in DOMAIN catalog THEN catalog.traffic ELSE EmptyDict

\* mutant: 'amber' and 'red' are returned the wrong way round
get_traffic_light_statusMutSwap(metric_name, value, catalog) ==
    IF metric_name \notin DOMAIN rules_traffic(catalog) THEN "amber"
    ELSE LET thresholds == catalog.traffic[metric_name]
             first == PyLe(value, threshold_get(thresholds, "green_max"))
             second == PyLe(value, threshold_get(thresholds, "amber_max"))
         IN  IF first = "TypeError" THEN "TypeError"
             ELSE IF first = "True" THEN "green"
             ELSE IF second = "TypeError" THEN "TypeError"
             ELSE IF second = "True" THEN "red"
             ELSE "amber"

\* mutant: a metric the catalog does not define gets a status of its own
get_traffic_light_statusMutUnknown(metric_name, value, catalog) ==
    IF metric_name \notin DOMAIN rules_traffic(catalog) THEN "unknown"
    ELSE LET thresholds == catalog.traffic[metric_name]
             first == PyLe(value, threshold_get(thresholds, "green_max"))
             second == PyLe(value, threshold_get(thresholds, "amber_max"))
         IN  IF first = "TypeError" THEN "TypeError"
             ELSE IF first = "True" THEN "green"
             ELSE IF second = "TypeError" THEN "TypeError"
             ELSE IF second = "True" THEN "amber"
             ELSE "red"

\* the status returned, or "TypeError" when a comparison raises; the second
\* comparison is made only when the first is false
get_traffic_light_status(metric_name, value, catalog) ==
    IF metric_name \notin DOMAIN rules_traffic(catalog) THEN "amber"
    ELSE LET thresholds == catalog.traffic[metric_name]
             first == PyLe(value, threshold_get(thresholds, "green_max"))
             second == PyLe(value, threshold_get(thresholds, "amber_max"))
         IN  IF first = "TypeError" THEN "TypeError"
             ELSE IF first = "True" THEN "green"
             ELSE IF second = "TypeError" THEN "TypeError"
             ELSE IF second = "True" THEN "amber"
             ELSE "red"

\* metric names asked about: one the catalogs may define, one they never do
MetricNames == {"hba1c", "ketones"}

\* values asked about: around the bounds 7.0 and 9.0, NaN and a str
MetricValues ==
    {Num(69), Num(70), Num(85), Num(90), Num(91), NaN, Str("n/a")}

\* what a threshold key can hold in rules.json: a number or null
BoundValues == {Num(70), Num(90), None}

Directions == {Str("higher_is_worse"), Str("lower_is_worse")}

ThresholdKeys == {"green_max", "amber_max", "direction"}

\* one metric's record in rules.json, any key of which may be missing
Thresholds ==
    UNION {{th \in [keys -> BoundValues \cup Directions] :
              \A k \in keys : (k = "direction") <=> (th[k] \in Directions)} :
           keys \in SUBSET ThresholdKeys}

\* the documents rules.json can hold: with or without 'traffic', with or
\* without the metric
Catalogs ==
    {EmptyDict, [traffic |-> EmptyDict]}
        \cup {[traffic |-> [m \in {"hba1c"} |-> th]] : th \in Thresholds}

\* load_rules: json.load returns the document as it is
load_rules(document) ==
    /\ rules' = document
    /\ UNCHANGED <<status, svars>>

\* open or json.load raises (no file, no JSON): nothing is returned
load_rules_error ==
    /\ status' = [NoCall EXCEPT !.result = "JSONDecodeError"]
    /\ UNCHANGED <<rules, svars>>

\* a call of get_traffic_light_status with the loaded catalog
classify(metric_name, value) ==
    /\ rules # NotLoaded
    /\ status' = [metric |-> metric_name, value |-> value, rules |-> rules,
                  result |-> get_traffic_light_status(metric_name, value, rules)]
    /\ UNCHANGED <<rules, svars>>

ClassifyNext ==
    \/ \E document \in Catalogs : load_rules(document)
    \/ load_rules_error
    \/ \E m \in MetricNames : \E v \in MetricValues : classify(m, v)

ClassifySpec == Init /\ [][ClassifyNext]_vars

-----------------------------------------------------------------------------
(* Reading a state or a step *)

\* the last script run was a process_pdf that stored its document
Merged == op.name = "process_pdf" /\ op.choice = "ok"

HasValue(result) == "value" \in DOMAIN result

\* test names the form and the document both hold
InBoth(data, doc) == {t \in DOMAIN doc \cap DOMAIN data : HasValue(doc[t])}

\* every field the document shares with the form carries the form's value
Agrees(data, doc) ==
    \A t \in DOMAIN doc \cap DOMAIN data :
        HasValue(doc[t]) /\ doc[t].value = data[t]

\* an alert of a rule that reads field t is among the run's alerts
AlertOn(t) ==
    \E i \in 1..Len(Rules) :
        /\ Rules[i].field = t
        /\ \E j \in 1..Len(flags) : flags[j].rule_id = Rules[i].id

NamesFilled ==
    Truthy(Get(patient_data, "first_name")) /\ Truthy(Get(patient_data, "last_name"))

-----------------------------------------------------------------------------
(* Claims *)

\* C1: after a merge, every field the form and the document both hold with
\* differing values has a Conflict in the session's conflict list, whatever
\* the form value is (0, False and '' included).  process_pdf leaves
\* patient_data alone, so the form snapshot is patient_data itself.
C1_ConflictCompleteness ==
    Merged =>
        \A t \in InBoth(patient_data, lab_data) :
            PyNe(patient_data[t], lab_data[t].value) => t \in DOMAIN conflicts

\* C2: while a Conflict on a field is unresolved, patient_data holds neither
\* the form value nor the document value for that field.
C2_UnresolvedFieldWithheld ==
    \A t \in unresolved :
        \/ t \notin DOMAIN patient_data
        \/ patient_data[t] \notin {conflicts[t].form_value, conflicts[t].pdf_value}

\* C3: between the merge that creates a Conflict on a field and its resolve,
\* no evaluation fires a rule reading that field; after resolve to the
\* document value, an evaluation fires the rule exactly when the document
\* value satisfies its predicate.
C3_NoAlertWhileUnresolved ==
    /\ \A t \in unresolved : ~AlertOn(t)
    /\ \A t \in DOMAIN conflicts :
         (op.name = "resolve" /\ op.t = t /\ op.choice = "Use PDF value"
            /\ NamesFilled)
         => \A i \in 1..Len(Rules) :
              Rules[i].field = t =>
                (AlertOn(t) <=>
                    RuleFires(Rules[i], Put(EmptyDict, t, conflicts[t].pdf_value)))

\* C4: a merge with a document that agrees with the form on every field they
\* share records no Conflict and leaves the snapshot equal to the form.
C4_AgreementIdempotent ==
    [][(Merged' /\ Agrees(patient_data, lab_data'))
        => (conflicts' = EmptyDict /\ patient_data' = patient_data)]_vars

\* C4 witness: a merge has stored a document that shares a field with the form
\* and agrees with it.
C4_Witness ==
    /\ Merged
    /\ Agrees(patient_data, lab_data)
    /\ \E t \in InBoth(patient_data, lab_data) : Truthy(patient_data[t])
    /\ conflicts = EmptyDict

\* C5: a merge adopts into the snapshot the document's value of every field
\* the form does not hold, and records no Conflict for it.
C5_AbsentFieldAdopted ==
    [][Merged' =>
        \A t \in DOMAIN lab_data' \ DOMAIN patient_data :
            HasValue(lab_data'[t]) =>
                /\ Get(patient_data', t) = lab_data'[t].value
                /\ t \notin DOMAIN conflicts']_vars

\* the last script run made the selection `choice` on the chip of t
Resolved(t, choice) == op.name = "resolve" /\ op.t = t /\ op.choice = choice

\* the resolution of the Conflict on t as the session holds it: the value of
\* the chip's radio
Resolution(t) == IF radio[t] = "Use PDF value" THEN "use_document" ELSE "use_form"

\* C6: after a Conflict was resolved to the document value, a second merge
\* whose document carries that value again, the user's form entry unchanged,
\* creates a new unresolved Conflict for the field.
C6_ReuploadResurfaces ==
    [][\A t \in DOMAIN conflicts :
        (/\ t \notin unresolved
         /\ t \notin edited
         /\ radio[t] = "Use PDF value"
         /\ patient_data[t] = conflicts[t].pdf_value
         /\ Merged'
         /\ t \in DOMAIN lab_data'
         /\ HasValue(lab_data'[t])
         /\ lab_data'[t].value = conflicts[t].pdf_value)
        => (/\ t \in DOMAIN conflicts'
            /\ t \in unresolved'
            /\ conflicts'[t].form_value = conflicts[t].form_value)]_vars

\* C7: resolving a Conflict to the document value twice in a row leaves the
\* snapshot as the first resolution left it, keeps the conflict list as it was
\* (no duplicate) and keeps the resolution at the document value.
C7_ResolveTwiceSame ==
    [][\A t \in TestNames :
        (Resolved(t, "Use PDF value") /\ Resolved(t, "Use PDF value")')
        => (/\ patient_data' = patient_data
            /\ conflicts' = conflicts
            /\ t \in DOMAIN conflicts'
            /\ Resolution(t)' = "use_document")]_vars

\* C7 witness: the document value was chosen twice in a row on a chip.
C7_Witness ==
    \E t \in DOMAIN conflicts :
        /\ op = Op("resolve", t, "Use PDF value", "Use PDF value")
        /\ patient_data[t] = conflicts[t].pdf_value
        /\ conflicts[t].form_value # conflicts[t].pdf_value

\* C8: after a resolve the snapshot holds the value of the chosen source for
\* the Conflict's field, the document value or the form value, also when the
\* form value is chosen after the document value.
C8_ResolveSetsChosenValue ==
    \A t \in DOMAIN conflicts \ edited :
        /\ Resolved(t, "Use PDF value")
            => Get(patient_data, t) = conflicts[t].pdf_value
        /\ Resolved(t, "Keep form value")
            => Get(patient_data, t) = conflicts[t].form_value

\* C9: a resolve changes no snapshot field but the Conflict's own, and leaves
\* the extracted lab data and the conflict list as they were.
C9_ResolveFrame ==
    [][\A t \in TestNames :
        (op'.name = "resolve" /\ op'.t = t)
        => (/\ lab_data' = lab_data
            /\ conflicts' = conflicts
            /\ DOMAIN patient_data' = DOMAIN patient_data \cup {t}
            /\ \A g \in DOMAIN patient_data \ {t} :
                 patient_data'[g] = patient_data[g])]_vars

\* C9 witness: one of two Conflicts was resolved to its document value, which
\* changed its field, while the other is still pending.
C9_Witness ==
    \E t \in DOMAIN conflicts : \E u \in unresolved :
        /\ u # t
        /\ Resolved(t, "Use PDF value")
        /\ patient_data[t] = conflicts[t].pdf_value
        /\ patient_data[u] = conflicts[u].form_value
        /\ conflicts[u].pdf_value # conflicts[u].form_value

\* C10: a Conflict on which no resolve has acted is in the state unresolved,
\* not use_form nor use_document; after a resolve its resolution is the
\* chosen one.
C10_FreshConflictUnresolved ==
    /\ \A t \in unresolved : Resolution(t) = "unresolved"
    /\ \A t \in DOMAIN conflicts :
         /\ Resolved(t, "Use PDF value") => Resolution(t) = "use_document"
         /\ Resolved(t, "Keep form value") => Resolution(t) = "use_form"

\* C11: a Conflict, once created, stays in the session's conflict list through
\* every later resolve and merge.
C11_ConflictsNeverDeleted ==
    [][\A t \in DOMAIN conflicts :
        t \in DOMAIN conflicts' /\ conflicts'[t] = conflicts[t]]_vars

\* a document whose entries under the form's field names all carry a value
FormEntriesHaveValue(doc) ==
    \A t \in DOMAIN doc \cap DOMAIN patient_data : HasValue(doc[t])

\* C17: a test name of the document that is no form field makes no Conflict
\* and raises nothing, whatever its entry holds, and a Conflict from an entry
\* without a unit has the unit ''.
C17_ToleratesIrregularExtraction ==
    /\ WidgetFields \subseteq DOMAIN patient_data
         => \A doc \in Documents :
               FormEntriesHaveValue(doc) => ~CompareRaises(patient_data, doc)
    /\ Merged =>
         /\ \A t \in DOMAIN lab_data \ DOMAIN patient_data :
                t \notin DOMAIN conflicts
         /\ \A t \in DOMAIN conflicts :
                "unit" \notin DOMAIN lab_data[t] => conflicts[t].unit = ""

\* a merge went through whose document held an entry without 'value' under a
\* name the form does not have, and a conflicting entry without 'unit'
C17_Witness ==
    /\ Merged
    /\ \E t \in DOMAIN lab_data \ DOMAIN patient_data : ~HasValue(lab_data[t])
    /\ \E t \in DOMAIN conflicts :
            "unit" \notin DOMAIN lab_data[t] /\ conflicts[t].unit = ""

\* C18: a process_pdf that fails (extraction, parsing, or an entry without
\* 'value' in the loop) leaves lab_data, conflicts and patient_data as they
\* were and the run goes on to the rules; lab_data and conflicts change only in
\* a successful process_pdf, which sets both from the same document.
C18_FailedMergeChangesNothing ==
    [][/\ (op'.name = "process_pdf" /\ op'.choice # "ok")
            => /\ lab_data' = lab_data
               /\ conflicts' = conflicts
               /\ patient_data' = patient_data
               /\ flags' = main_flags(patient_data')
       /\ (lab_data' # lab_data \/ conflicts' # conflicts)
            => /\ Merged'
               /\ conflicts' = DetectConflicts(patient_data, lab_data')]_vars

\* a process_pdf failed in the comparison loop after an earlier one had left
\* lab data and a conflict
C18_Witness ==
    /\ op.name = "process_pdf" /\ op.choice = "KeyError"
    /\ lab_data # EmptyDict
    /\ conflicts # EmptyDict

\* C19: every entry of conflicts is for a field of lab_data, holds lab_data's
\* value as pdf_value and lab_data's unit ('' when it has none) as unit, and
\* its form_value differs from its pdf_value.
C19_ConflictsMatchLabData ==
    \A t \in DOMAIN conflicts :
        /\ t \in DOMAIN lab_data
        /\ HasValue(lab_data[t])
        /\ conflicts[t].pdf_value = lab_data[t].value
        /\ conflicts[t].unit =
              (IF "unit" \in DOMAIN lab_data[t] THEN lab_data[t].unit ELSE "")
        /\ conflicts[t].form_value # conflicts[t].pdf_value

\* a conflict is held after its chip wrote the PDF value into the form
C19_Witness ==
    /\ op.name = "resolve" /\ op.choice = "Use PDF value"
    /\ op.t \in DOMAIN conflicts
    /\ patient_data[op.t] = conflicts[op.t].pdf_value

\* C21: the alerts of a run are those the rule engine returns for the
\* session's patient_data, in its order, when first_name and last_name are both
\* non-empty, and there are none when either name is empty, whatever the
\* clinical values.
C21_AlertsIffBothNames ==
    /\ NamesFilled => flags = evaluate(patient_data)
    /\ ~NamesFilled => flags = <<>>

\* a run with one name filled in and an HbA1c the rule fires on showed no alert
C21_Witness ==
    /\ op.name = "form"
    /\ Truthy(Get(patient_data, "first_name"))
    /\ ~Truthy(Get(patient_data, "last_name"))
    /\ evaluate(patient_data) # <<>>
    /\ flags = <<>>

-----------------------------------------------------------------------------
(* Claims about the traffic-light classifier, checked under ClassifySpec *)

\* the last call asked about a metric its catalog defines
Defined == status.metric \in DOMAIN rules_traffic(status.rules)

\* the last call asked about a metric its catalog does not define
Undefined ==
    /\ status.metric \in MetricNames
    /\ status.metric \notin DOMAIN rules_traffic(status.rules)

\* the definition the last call looked up
Definition == status.rules.traffic[status.metric]

IsBound(b) == IsNum(b) \/ b = Inf

\* v <= b for a number v and a bound b that is a number or infinity
AtMost(v, b) == IF b = Inf THEN TRUE ELSE v.num <= b.num

BoundsOrdered(th) ==
    LET green_max == threshold_get(th, "green_max")
        amber_max == threshold_get(th, "amber_max")
    IN  /\ IsBound(green_max) /\ IsBound(amber_max)
        /\ green_max = Inf => amber_max = Inf
        /\ IsNum(green_max) => AtMost(green_max, amber_max)

Declares(th, direction) ==
    "direction" \in DOMAIN th /\ th.direction = Str(direction)

\* C12: for a metric declared higher_is_worse with green_max <= amber_max and
\* a number v, the status is green exactly when v <= green_max, amber exactly
\* when green_max < v <= amber_max and red exactly when v > amber_max.
C12_HigherIsWorseBands ==
    (/\ Defined /\ IsNum(status.value)
     /\ Declares(Definition, "higher_is_worse") /\ BoundsOrdered(Definition))
    => LET v == status.value
           green_max == threshold_get(Definition, "green_max")
           amber_max == threshold_get(Definition, "amber_max")
       IN  /\ status.result = "green" <=> AtMost(v, green_max)
           /\ status.result = "amber"
                <=> (~AtMost(v, green_max) /\ AtMost(v, amber_max))
           /\ status.result = "red" <=> ~AtMost(v, amber_max)

\* a value on the boundary green_max = 7.0 of a higher_is_worse metric with
\* amber_max = 9.0 was classified green
C12_Witness ==
    /\ Defined /\ Declares(Definition, "higher_is_worse")
    /\ "green_max" \in DOMAIN Definition /\ Definition.green_max = Num(70)
    /\ "amber_max" \in DOMAIN Definition /\ Definition.amber_max = Num(90)
    /\ status.value = Num(70)
    /\ status.result = "green"

C14_NonNumberIsUnknown ==
    (Defined /\ ~IsNum(status.value)) => status.result = "unknown"

\* C15: for a metric declared lower_is_worse with numeric bounds, a number below
\* both bounds is red and a number above both bounds is green.
C15_LowerIsWorseMirrors ==
    (/\ Defined /\ IsNum(status.value) /\ Declares(Definition, "lower_is_worse")
     /\ "green_max" \in DOMAIN Definition /\ IsNum(Definition.green_max)
     /\ "amber_max" \in DOMAIN Definition /\ IsNum(Definition.amber_max))
    => LET v == status.value.num
           green_max == Definition.green_max.num
           amber_max == Definition.amber_max.num
       IN  /\ (v < green_max /\ v < amber_max) => status.result = "red"
           /\ (v > green_max /\ v > amber_max) => status.result = "green"

\* a metric definition with both threshold keys, numeric bounds and
\* green_max <= amber_max
WellFormed(th) ==
    /\ {"green_max", "amber_max"} \subseteq DOMAIN th
    /\ IsNum(th.green_max) /\ IsNum(th.amber_max)
    /\ th.green_max.num <= th.amber_max.num

CatalogWellFormed(catalog) ==
    \A m \in DOMAIN rules_traffic(catalog) : WellFormed(catalog.traffic[m])

\* C16: a catalog with a metric definition that lacks a threshold key, has a
\* non-numeric bound or has green_max > amber_max is never returned by the
\* load and never used by a classification.
C16_MalformedCatalogRejected ==
    /\ rules # NotLoaded => CatalogWellFormed(rules)
    /\ status.rules # NotLoaded => CatalogWellFormed(status.rules)

Statuses == {"green", "amber", "red"}

\* the order green < amber < red
Severity(s) == CASE s = "green" -> 0 [] s = "amber" -> 1 [] s = "red" -> 2

Numbers == {v \in MetricValues : IsNum(v)}

\* C20: against the catalog of the last call, whatever its entry (a bound
\* missing, green_max > amber_max), no smaller number has a more severe status
\* and no larger number a less severe one than the number just classified.
C20_Monotone ==
    (status.metric \in MetricNames /\ IsNum(status.value)
        /\ status.result \in Statuses)
    => \A w \in Numbers :
         LET other == get_traffic_light_status(status.metric, w, status.rules)
         IN  other \in Statuses =>
               /\ w.num <= status.value.num
                    => Severity(other) <= Severity(status.result)
               /\ w.num >= status.value.num
                    => Severity(other) >= Severity(status.result)

\* a number was classified against an entry with green_max 9.0 > amber_max 7.0
C20_Witness ==
    /\ Defined /\ DOMAIN Definition = {"green_max", "amber_max"}
    /\ Definition.green_max = Num(90) /\ Definition.amber_max = Num(70)
    /\ status.value = Num(91)
    /\ status.result = "red"

====
